---- MODULE Spec2Model ----
(***************************************************************************)
(* Model of server/main.go: the /load_data handler loadSensorData, which   *)
(* walks the device registry configMap, fetches the latest row of every    *)
(* device's store, derives dew point, absolute humidity, battery icon and  *)
(* a relative-time label, sorts the records by Mac and hands them to the   *)
(* sensors template.                                                       *)
(*                                                                         *)
(* float64 values are modelled as records [cls, v]: cls is "num", "nan",   *)
(* "pinf" or "ninf" (the IEEE-754 special values Go's math package         *)
(* produces), and v is the value in units of 1/FP (fixed point).  Strings  *)
(* that the code compares or parses (device ids, timestamps) are modelled  *)
(* as sequences; strings that are only produced are TLA+ strings or        *)
(* sequences of their formatted parts.                                     *)
(***************************************************************************)
EXTENDS Integers, Sequences, FiniteSets, TLC

\* ------------------------------------------------------------------------
\* float64 arithmetic (fixed point, four decimals)
\* ------------------------------------------------------------------------

FP == 10000

Num(v) == [cls |-> "num", v |-> v]
NaN == [cls |-> "nan", v |-> 0]
PInf == [cls |-> "pinf", v |-> 0]
NInf == [cls |-> "ninf", v |-> 0]

\* the float64 of an integer, and of a decimal literal i.ffff
F(i) == Num(i * FP)
Lit(i, frac) == Num(i * FP + frac)

Abs(n) == IF n < 0 THEN -n ELSE n
Sgn(n) == IF n < 0 THEN -1 ELSE IF n > 0 THEN 1 ELSE 0

\* |a|*|b| / FP on magnitudes, split so that no partial product overflows
MulMag(a, b) ==
    LET ah == a \div FP
        al == a % FP
        bh == b \div FP
        bl == b % FP
    IN  ah * bh * FP + ah * bl + al * bh + (al * bl + FP \div 2) \div FP

RECURSIVE FracDigits(_, _, _)
FracDigits(r, b, n) ==
    IF n = 0 THEN 0
    ELSE ((r * 10) \div b) * (10 ^ (n - 1)) + FracDigits((r * 10) % b, b, n - 1)

\* |a| * FP / |b| on magnitudes, b > 0, by long division
DivMag(a, b) == (a \div b) * FP + FracDigits(a % b, b, 4)

IsInf(a) == a.cls \in {"pinf", "ninf"}
InfSign(a) == IF a.cls = "pinf" THEN 1 ELSE -1
SignOf(a) == IF a.cls = "num" THEN Sgn(a.v) ELSE InfSign(a)
InfOf(s) == IF s > 0 THEN PInf ELSE NInf

FNeg(a) ==
    CASE a.cls = "num" -> Num(-a.v)
      [] a.cls = "pinf" -> NInf
      [] a.cls = "ninf" -> PInf
      [] OTHER -> NaN

FAdd(a, b) ==
    IF a.cls = "nan" \/ b.cls = "nan" THEN NaN
    ELSE IF IsInf(a) /\ IsInf(b) THEN (IF a.cls = b.cls THEN a ELSE NaN)
    ELSE IF IsInf(a) THEN a
    ELSE IF IsInf(b) THEN b
    ELSE Num(a.v + b.v)

FSub(a, b) == FAdd(a, FNeg(b))

FMul(a, b) ==
    IF a.cls = "nan" \/ b.cls = "nan" THEN NaN
    ELSE IF IsInf(a) \/ IsInf(b)
         THEN (IF SignOf(a) * SignOf(b) = 0 THEN NaN ELSE InfOf(SignOf(a) * SignOf(b)))
    ELSE Num(Sgn(a.v) * Sgn(b.v) * MulMag(Abs(a.v), Abs(b.v)))

FDiv(a, b) ==
    IF a.cls = "nan" \/ b.cls = "nan" THEN NaN
    ELSE IF IsInf(a) /\ IsInf(b) THEN NaN
    ELSE IF IsInf(a) THEN InfOf(InfSign(a) * (IF SignOf(b) < 0 THEN -1 ELSE 1))
    ELSE IF IsInf(b) THEN Num(0)
    ELSE IF b.v = 0 THEN (IF a.v = 0 THEN NaN ELSE InfOf(Sgn(a.v)))
    ELSE Num(Sgn(a.v) * Sgn(b.v) * DivMag(Abs(a.v), Abs(b.v)))

\* a < b on float64: false when either side is NaN
FLt(a, b) ==
    IF a.cls = "nan" \/ b.cls = "nan" THEN FALSE
    ELSE IF a.cls = "pinf" \/ b.cls = "ninf" THEN FALSE
    ELSE IF a.cls = "ninf" \/ b.cls = "pinf" THEN TRUE
    ELSE a.v < b.v

\* math.Round: to the nearest integer, halves away from zero
Round(a) ==
    IF a.cls # "num" THEN a
    ELSE Num(Sgn(a.v) * ((Abs(a.v) + FP \div 2) \div FP) * FP)

\* e^(f/FP) for 0 <= f < FP, by its Taylor series
RECURSIVE ExpSeries(_, _, _, _)
ExpSeries(f, term, n, acc) ==
    IF term = 0 \/ n > 12 THEN acc
    ELSE LET next == MulMag(term, f) \div n
         IN  ExpSeries(f, next, n + 1, acc + next)

RECURSIVE ExpScale(_, _)
ExpScale(x, k) ==
    IF k = 0 THEN x
    ELSE IF k > 0 THEN ExpScale(MulMag(x, 27183), k - 1)
    ELSE ExpScale(DivMag(x, 27183), k + 1)

\* math.Exp
Exp(a) ==
    CASE a.cls = "nan" -> NaN
      [] a.cls = "pinf" -> PInf
      [] a.cls = "ninf" -> Num(0)
      [] OTHER -> Num(ExpScale(ExpSeries(a.v % FP, FP, 1, FP), a.v \div FP))

\* x = m * 2^k with FP <= m < 2*FP
RECURSIVE LogNorm(_, _)
LogNorm(x, k) ==
    IF x < FP THEN LogNorm(x * 2, k - 1)
    ELSE IF x >= 2 * FP THEN LogNorm(x \div 2, k + 1)
    ELSE <<x, k>>

\* ln(m/FP) for FP <= m < 2*FP: 2*atanh((m-1)/(m+1))
LogSeries(m) ==
    LET z == DivMag(m - FP, m + FP)
        z2 == MulMag(z, z)
        z3 == MulMag(z, z2)
        z5 == MulMag(z3, z2)
        z7 == MulMag(z5, z2)
    IN  2 * (z + z3 \div 3 + z5 \div 5 + z7 \div 7)

\* math.Log: NaN below zero, -Inf at zero
Log(a) ==
    CASE a.cls = "nan" -> NaN
      [] a.cls = "ninf" -> NaN
      [] a.cls = "pinf" -> PInf
      [] a.v < 0 -> NaN
      [] a.v = 0 -> NInf
      [] OTHER -> LET n == LogNorm(a.v, 0)
                  IN  Num(n[2] * 6931 + LogSeries(n[1]))

\* ------------------------------------------------------------------------
\* derived metrics
\* ------------------------------------------------------------------------

calcDewPoint(hum, temp) ==
    LET const1 == IF FLt(temp, F(0)) THEN Lit(272, 1860) ELSE Lit(241, 2000)
        const2 == IF FLt(temp, F(0)) THEN Lit(22, 4433) ELSE Lit(17, 5043)
        hum1 == FDiv(hum, F(100))
        hum2 == Log(hum1)
        abs_temp == FDiv(temp, FAdd(const1, temp))
        point == FDiv(FAdd(FMul(const1, hum2), FMul(FMul(const1, const2), abs_temp)),
                      FSub(FSub(const2, hum2), FMul(const2, abs_temp)))
    IN  FDiv(Round(FMul(point, F(10))), F(10))

\* the unrounded value of calcAbsHum's first statement
AbsHumFormula(hum, temp) ==
    FDiv(FMul(FMul(Lit(13, 2471),
                   Exp(FDiv(FMul(Lit(17, 6700), temp), FAdd(temp, Lit(243, 5000))))),
              hum),
         FAdd(Lit(273, 1500), temp))

\* calcAbsHum with calcDewPoint's last line copied: one decimal place
calcAbsHumOneDecimal(hum, temp) ==
    FDiv(Round(FMul(AbsHumFormula(hum, temp), F(10))), F(10))

calcAbsHum(hum, temp) ==
    FDiv(Round(FMul(AbsHumFormula(hum, temp), F(10))), F(1))

\* "" for 1, part otherwise
plural(number, part) == IF number = 1 THEN "" ELSE part

\* Go's integer division truncates toward zero
GoDiv(a, b) == IF a >= 0 THEN a \div b ELSE -((-a) \div b)

\* fmt.Sprintf of the three formats of loadSensorData: the parts in order
Sprintf(number, unit, suffix, tail) == <<number, unit, suffix, tail>>

\* the chain with its minute band closed at 60 instead of open
RelativeLabelOffByOne(diff_seconds) ==
    LET diff_minutes == GoDiv(diff_seconds, 60)
        diff_hours == GoDiv(diff_minutes, 60)
        diff_days == GoDiv(diff_hours, 24)
    IN  IF diff_seconds < 60 THEN <<"Up to date">>
        ELSE IF diff_minutes <= 60
             THEN Sprintf(diff_minutes, " Minute", plural(diff_minutes, "s"), " ago")
        ELSE IF diff_hours < 24
             THEN Sprintf(diff_hours, " Hour", plural(diff_hours, "s"), " ago")
        ELSE Sprintf(diff_days, " Day", plural(diff_days, "s"), "")

\* the if/else chain on diff_seconds, lines 135-149
RelativeLabel(diff_seconds) ==
    LET diff_minutes == GoDiv(diff_seconds, 60)
        diff_hours == GoDiv(diff_minutes, 60)
        diff_days == GoDiv(diff_hours, 24)
    IN  IF diff_seconds < 60 THEN <<"Up to date">>
        ELSE IF diff_minutes < 60
             THEN Sprintf(diff_minutes, " Minute", plural(diff_minutes, "s"), " ago")
        ELSE IF diff_hours < 24
             THEN Sprintf(diff_hours, " Hour", plural(diff_hours, "s"), " ago")
        ELSE Sprintf(diff_days, " Day", plural(diff_days, "s"), "")

\* time.Parse(time.RFC3339, s): a timestamp string is the sequence of its
\* fields; it parses when it is a local time followed by an explicit offset,
\* both in seconds, and then names the instant local - offset
ParseRFC3339(s) ==
    IF Len(s) = 2 THEN [ok |-> TRUE, unix |-> s[1] - s[2]]
    ELSE [ok |-> FALSE, unix |-> 0]

\* the time stuff without its else branch: no label on a parse error
TimeRelativeOfNoElse(Timestamp, nowUnix) ==
    LET parsed == ParseRFC3339(Timestamp)
    IN  IF parsed.ok THEN RelativeLabel(nowUnix - parsed.unix) ELSE <<>>

\* the "time stuff" of the loop body, lines 132-153
TimeRelativeOf(Timestamp, nowUnix) ==
    LET parsed == ParseRFC3339(Timestamp)
    IN  IF parsed.ok THEN RelativeLabel(nowUnix - parsed.unix) ELSE Timestamp

\* the chain with its first band closed at 5 instead of open
BatteryIconOfOffByOne(BatteryLevel) ==
    IF BatteryLevel <= 5 THEN "fa-battery-empty red"
    ELSE IF BatteryLevel < 15 THEN "fa-battery-empty yellow"
    ELSE IF BatteryLevel < 35 THEN "fa-battery-quarter"
    ELSE IF BatteryLevel < 65 THEN "fa-battery-half"
    ELSE IF BatteryLevel < 85 THEN "fa-battery-three-quarters"
    ELSE "fa-battery-full green"

\* sensor.BatteryIcon: the chain of lines 108-121 ends in an else, so it
\* overwrites the placeholder of line 107 on every path
BatteryIconOf(BatteryLevel) ==
    IF BatteryLevel < 5 THEN "fa-battery-empty red"
    ELSE IF BatteryLevel < 15 THEN "fa-battery-empty yellow"
    ELSE IF BatteryLevel < 35 THEN "fa-battery-quarter"
    ELSE IF BatteryLevel < 65 THEN "fa-battery-half"
    ELSE IF BatteryLevel < 85 THEN "fa-battery-three-quarters"
    ELSE "fa-battery-full green"

\* ------------------------------------------------------------------------
\* strings that are compared: sequences of byte values
\* ------------------------------------------------------------------------

RECURSIVE StrLess(_, _)
StrLess(a, b) ==
    IF b = <<>> THEN FALSE
    ELSE IF a = <<>> THEN TRUE
    ELSE IF a[1] < b[1] THEN TRUE
    ELSE IF a[1] > b[1] THEN FALSE
    ELSE StrLess(Tail(a), Tail(b))

\* ------------------------------------------------------------------------
\* the stores and the registry
\* ------------------------------------------------------------------------

\* SELECT ... ORDER BY timestamp DESC LIMIT 1, then Scan: an error when the
\* store cannot be queried or holds no row, else a row whose timestamp text
\* no other row's exceeds
QueryRow(store) ==
    IF ~store.ok \/ store.rows = {}
    THEN {[err |-> TRUE,
           row |-> [temp |-> 0, humidity |-> 0, battery_mv |-> 0,
                    battery_level |-> 0, timestamp |-> <<>>]]}
    ELSE {[err |-> FALSE, row |-> row] :
            row \in {x \in store.rows :
                        \A o \in store.rows : ~StrLess(x.timestamp, o.timestamp)}}

\* the record without its label set
NewSensorNoLoc(mac, config) ==
    [Temp |-> F(0), Humidity |-> F(0), BatteryMV |-> 0, BatteryLevel |-> 0,
     Timestamp |-> <<>>, DewPoint |-> F(0), AbsHum |-> F(0), BatteryIcon |-> "",
     DewPointText |-> "", Mac |-> mac, Loc |-> "", TimeRelative |-> <<>>]

\* var sensor SensorData; sensor.Mac = mac; sensor.Loc = config.Loc
NewSensor(mac, config) ==
    [Temp |-> F(0), Humidity |-> F(0), BatteryMV |-> 0, BatteryLevel |-> 0,
     Timestamp |-> <<>>, DewPoint |-> F(0), AbsHum |-> F(0), BatteryIcon |-> "",
     DewPointText |-> "", Mac |-> mac, Loc |-> config.Loc, TimeRelative |-> <<>>]

\* Scan into the sensor's fields: nothing is assigned when the query failed
Scan(sensor, res) ==
    IF res.err THEN sensor
    ELSE [sensor EXCEPT !.Temp = F(res.row.temp),
                        !.Humidity = F(res.row.humidity),
                        !.BatteryMV = res.row.battery_mv,
                        !.BatteryLevel = res.row.battery_level,
                        !.Timestamp = res.row.timestamp]

\* the loop body after the query, lines 104-153
Derive(scanned, nowUnix) ==
    LET Humidity == FDiv(scanned.Humidity, F(100))
        Temp == FDiv(scanned.Temp, F(100))
    IN  [scanned EXCEPT
            !.Humidity = Humidity,
            !.Temp = Temp,
            !.BatteryIcon = BatteryIconOf(scanned.BatteryLevel),
            !.DewPoint = calcDewPoint(Humidity, Temp),
            !.AbsHum = calcAbsHum(Humidity, Temp),
            !.DewPointText = IF FLt(Temp, F(0)) THEN "Freezing point" ELSE "Dew point",
            !.TimeRelative = TimeRelativeOf(scanned.Timestamp, nowUnix)]

\* sort.Slice(data, Mac <): the keys of a map are distinct, so the order is
\* determined
RECURSIVE InsertByMac(_, _)
InsertByMac(rec, sorted) ==
    IF sorted = <<>> THEN <<rec>>
    ELSE IF StrLess(rec.Mac, sorted[1].Mac) THEN <<rec>> \o sorted
    ELSE <<sorted[1]>> \o InsertByMac(rec, Tail(sorted))

\* no sort: the records stay in the order the map yielded them
SortByMacSkipped(data) == data

RECURSIVE SortByMac(_)
SortByMac(data) ==
    IF data = <<>> THEN <<>>
    ELSE InsertByMac(data[1], SortByMac(Tail(data)))

\* http.Error(w, text, code): the status line is written once, the text is
\* appended to the body
HttpError(resp, error, code) ==
    [status |-> IF resp.status = 0 THEN code ELSE resp.status,
     body |-> Append(resp.body, [kind |-> "error", error |-> error, data |-> <<>>])]

\* an error string: its literal text and the values formatted into it
Message(text, args) == [text |-> text, args |-> args]

\* tmpl.Execute(w, data) of templates/sensors.html
Execute(resp, data) ==
    [status |-> IF resp.status = 0 THEN 200 ELSE resp.status,
     body |-> Append(resp.body,
                     [kind |-> "sensors.html", error |-> Message("", <<>>),
                      data |-> data])]

NewResponse == [status |-> 0, body |-> <<>>]

\* ------------------------------------------------------------------------
\* bounds and input pools
\* ------------------------------------------------------------------------

\* the largest number of configured devices when one connection is served,
\* and when two are served concurrently
MaxDevices == 3
MaxSharedDevices == 2
\* elapsed seconds -MaxSkew .. MaxDense are all tried, one by one
MaxSkew == 130
MaxDense == 7300
\* and around every full hour up to MaxHours hours
MaxHours == 49
\* temperatures in half degrees, humidities in steps of two and a half percent
MaxHalfDegrees == 100
MaxHumiditySteps == 40

\* time.Now().Unix() during the run
NowBase == 1700000000

\* device ids "a2", "b1", "c0", "b" and their labels in config.json
DevicePool == {<<97, 50>>, <<98, 49>>, <<99, 48>>, <<98>>}
LabelOf(mac) ==
    CASE mac = <<97, 50>> -> "Kitchen"
      [] mac = <<98, 49>> -> "Bedroom"
      [] mac = <<99, 48>> -> "Balcony"
      [] OTHER -> "Cellar"

\* net/http serves every connection in a goroutine of its own
Conns == {"c1", "c2"}

MkRow(t, h, mv, lvl, ts) ==
    [temp |-> t, humidity |-> h, battery_mv |-> mv, battery_level |-> lvl,
     timestamp |-> ts]

\* a timestamp that is no RFC 3339 text
BadTimestamp == <<50, 48, 50, 52, 63>>

RowGood == MkRow(2150, 4500, 2900, 80, <<NowBase - 90, 0>>)
RowOld == MkRow(1900, 5000, 2950, 90, <<NowBase - 7200, 0>>)
RowBadTs == MkRow(-350, 8000, 2400, 10, BadTimestamp)

StorePool ==
    {[ok |-> FALSE, rows |-> {}],
     [ok |-> TRUE, rows |-> {}],
     [ok |-> TRUE, rows |-> {RowGood, RowOld}],
     [ok |-> TRUE, rows |-> {RowBadTs}]}

ElapsedPool ==
    (-MaxSkew .. MaxDense)
    \cup {k * 3600 + d : k \in 2 .. MaxHours, d \in {-1, 0, 1, 59, 60}}

\* rows that vary one input at a time over its whole range
WideRows ==
    {MkRow(2150, 4500, 2900, lvl, <<NowBase - 90, 0>>) : lvl \in -128 .. 127}
    \cup {MkRow(2150, 4500, 2900, 80, <<NowBase - e, 0>>) : e \in ElapsedPool}
    \cup {MkRow(2150, 4500, 2900, 80, <<NowBase - e + off, off>>) :
            e \in {0, 59, 60, 3600, 86400}, off \in {-3600, 7200}}
    \cup {MkRow(50 * t - 2000, 250 * h, 2900, 80, <<NowBase - 90, 0>>) :
            t \in 0 .. MaxHalfDegrees, h \in 1 .. MaxHumiditySteps}
    \cup {MkRow(2150, 4500, 2900, 80, ts) : ts \in {<<>>, BadTimestamp}}
    \cup {MkRow(t, h, 2900, 80, <<NowBase - 90, 0>>) :
            t \in {-500, 2000}, h \in {-100, 0}}

\* ------------------------------------------------------------------------
\* state
\* ------------------------------------------------------------------------

VARIABLES
    configMap,  \* the registry: mac -> [Loc, Db]
    stores,     \* Db handle -> the store's rows
    now,        \* the wall clock, Unix seconds
    conns,      \* the connections that send requests
    pc,         \* per connection: "idle", "loop" or "done"
    remaining,  \* per connection: the keys range configMap has yet to yield
    data,       \* per connection: the handler's local slice data
    w,          \* per connection: the response written so far
    fetched     \* per connection: mac -> what its query returned

vars == <<configMap, stores, now, conns, pc, remaining, data, w, fetched>>

NoFetch == [m \in {} |-> 0]

\* main: configMap = loadConfig(); one store handle is opened per device
InitRequests ==
    /\ now = NowBase
    /\ pc = [r \in Conns |-> "idle"]
    /\ remaining = [r \in Conns |-> {}]
    /\ data = [r \in Conns |-> <<>>]
    /\ w = [r \in Conns |-> NewResponse]
    /\ fetched = [r \in Conns |-> NoFetch]

Init ==
    /\ conns \in {{"c1"}, Conns}
    /\ \E S \in SUBSET DevicePool :
          /\ Cardinality(S) <= (IF conns = Conns THEN MaxSharedDevices ELSE MaxDevices)
          /\ configMap = [mac \in S |-> [Loc |-> LabelOf(mac), Db |-> mac]]
          /\ stores \in [S -> StorePool]
    /\ InitRequests

InitDerive ==
    /\ conns = {"c1"}
    /\ configMap = [mac \in {<<97, 50>>} |-> [Loc |-> LabelOf(mac), Db |-> mac]]
    /\ \E row \in WideRows :
          stores = [h \in {<<97, 50>>} |-> [ok |-> TRUE, rows |-> {row}]]
    /\ InitRequests

\* ------------------------------------------------------------------------
\* loadSensorData, one action per step between two I/O operations
\* ------------------------------------------------------------------------

\* the handler is entered: var data []SensorData, range configMap begins
Begin(r) ==
    /\ r \in conns
    /\ pc[r] = "idle"
    /\ pc' = [pc EXCEPT ![r] = "loop"]
    /\ remaining' = [remaining EXCEPT ![r] = DOMAIN configMap]
    /\ data' = [data EXCEPT ![r] = <<>>]
    /\ w' = [w EXCEPT ![r] = NewResponse]
    /\ fetched' = [fetched EXCEPT ![r] = NoFetch]
    /\ UNCHANGED <<configMap, stores, now, conns>>

\* an iteration whose query removes the row it read from the store
IterateConsuming(r) ==
    /\ r \in conns
    /\ pc[r] = "loop"
    /\ \E mac \in remaining[r] :
       \E res \in QueryRow(stores[configMap[mac].Db]) :
          LET sensor == Derive(Scan(NewSensor(mac, configMap[mac]), res), now)
          IN  /\ w' = [w EXCEPT ![r] =
                          IF res.err
                          THEN HttpError(@, Message("Data could not be loaded", <<>>), 500)
                          ELSE @]
              /\ data' = [data EXCEPT ![r] = Append(@, sensor)]
              /\ remaining' = [remaining EXCEPT ![r] = @ \ {mac}]
              /\ fetched' = [fetched EXCEPT ![r] =
                                [m \in DOMAIN @ \cup {mac} |->
                                    IF m = mac THEN res ELSE @[m]]]
              /\ stores' = [stores EXCEPT ![configMap[mac].Db].rows = @ \ {res.row}]
    /\ UNCHANGED <<configMap, now, conns, pc>>

\* one iteration of the loop, for a key the range has not yet yielded
Iterate(r) ==
    /\ r \in conns
    /\ pc[r] = "loop"
    /\ \E mac \in remaining[r] :
       \E res \in QueryRow(stores[configMap[mac].Db]) :
          LET sensor == Derive(Scan(NewSensor(mac, configMap[mac]), res), now)
          IN  /\ w' = [w EXCEPT ![r] =
                          IF res.err
                          THEN HttpError(@, Message("Data could not be loaded", <<>>), 500)
                          ELSE @]
              /\ data' = [data EXCEPT ![r] = Append(@, sensor)]
              /\ remaining' = [remaining EXCEPT ![r] = @ \ {mac}]
              /\ fetched' = [fetched EXCEPT ![r] =
                                [m \in DOMAIN @ \cup {mac} |->
                                    IF m = mac THEN res ELSE @[m]]]
    /\ UNCHANGED <<configMap, stores, now, conns, pc>>

\* after the loop: sort.Slice, then the template is executed on data
Render(r) ==
    /\ r \in conns
    /\ pc[r] = "loop"
    /\ remaining[r] = {}
    /\ data' = [data EXCEPT ![r] = SortByMac(@)]
    /\ w' = [w EXCEPT ![r] = Execute(@, SortByMac(data[r]))]
    /\ pc' = [pc EXCEPT ![r] = "done"]
    /\ UNCHANGED <<configMap, stores, now, conns, remaining, fetched>>

\* the handler returns and its locals are gone
Return(r) ==
    /\ r \in conns
    /\ pc[r] = "done"
    /\ pc' = [pc EXCEPT ![r] = "idle"]
    /\ data' = [data EXCEPT ![r] = <<>>]
    /\ w' = [w EXCEPT ![r] = NewResponse]
    /\ fetched' = [fetched EXCEPT ![r] = NoFetch]
    /\ UNCHANGED <<configMap, stores, now, conns, remaining>>

Next ==
    \E r \in Conns :
        \/ Begin(r)
        \/ Iterate(r)
        \/ Render(r)
        \/ Return(r)

Spec == Init /\ [][Next]_vars

SpecDerive == InitDerive /\ [][Next]_vars

\* ------------------------------------------------------------------------
\* what is observed of a request
\* ------------------------------------------------------------------------

\* the devices whose query failed in the current run of connection r
FailedMacs(r) == {m \in DOMAIN fetched[r] : fetched[r][m].err}
\* the places in the response where an error was written
ErrorChunks(r) == {i \in 1 .. Len(w[r].body) : w[r].body[i].kind = "error"}
\* the places in the response where the sensors template was executed
Rendered(r) == {i \in 1 .. Len(w[r].body) : w[r].body[i].kind = "sensors.html"}
Macs(d) == [k \in 1 .. Len(d) |-> d[k].Mac]
\* the records of connection r that come from a row, not from a failed query
FromRow(r) ==
    {k \in 1 .. Len(data[r]) :
        data[r][k].Mac \in DOMAIN fetched[r] /\ ~fetched[r][data[r][k].Mac].err}

\* ------------------------------------------------------------------------
\* claims
\* ------------------------------------------------------------------------

\* C1: when the query of any device fails, the sensors template is never
\* executed in that run: the response carries only the error.
C1_AbortsOnFetchFailure ==
    \A r \in Conns : FailedMacs(r) # {} => Rendered(r) = {}

\* C2: for every device whose query fails, an error is written that names
\* that device.
C2_FailureNamesDevice ==
    \A r \in Conns : \A m \in FailedMacs(r) :
        \E i \in ErrorChunks(r) :
            \E j \in 1 .. Len(w[r].body[i].error.args) :
                w[r].body[i].error.args[j] = m

\* C3: in a run without a failed query the sequence handed to the template
\* holds exactly one record per configured device, with the device's label,
\* and no other record.
C3_OneRecordPerDevice ==
    \A r \in Conns : \A i \in Rendered(r) :
        FailedMacs(r) = {} =>
            LET d == w[r].body[i].data
            IN  /\ Len(d) = Cardinality(DOMAIN configMap)
                /\ \A k \in 1 .. Len(d) : d[k].Mac \in DOMAIN configMap
                /\ \A mac \in DOMAIN configMap :
                      Cardinality({k \in 1 .. Len(d) :
                                      /\ d[k].Mac = mac
                                      /\ d[k].Loc = configMap[mac].Loc}) = 1

C3_Witness ==
    \E r \in Conns :
        /\ pc[r] = "done"
        /\ Rendered(r) # {}
        /\ FailedMacs(r) = {}
        /\ Cardinality(DOMAIN configMap) = 3

\* C4: the sequence handed to the template is strictly ascending by device
\* id, whatever order the map was iterated in.
C4_SortedByMac ==
    \A r \in Conns : \A i \in Rendered(r) :
        LET d == w[r].body[i].data
        IN  \A k \in 1 .. Len(d) - 1 : StrLess(d[k].Mac, d[k + 1].Mac)

C4_Witness ==
    \E r \in Conns : \E i \in Rendered(r) :
        Macs(w[r].body[i].data) = <<(<<97, 50>>), (<<98, 49>>), (<<99, 48>>)>>

\* the classes of the spec's table, by the percent ranges it lists
ClassOfPercent(p) ==
    CASE p \in 0 .. 4 -> "CRITICAL"
      [] p \in 5 .. 14 -> "LOW"
      [] p \in 15 .. 34 -> "QUARTER"
      [] p \in 35 .. 64 -> "HALF"
      [] p \in 65 .. 84 -> "THREE_QUARTER"
      [] p \in 85 .. 100 -> "FULL"

ClassOfIcon(icon) ==
    CASE icon = "fa-battery-empty red" -> "CRITICAL"
      [] icon = "fa-battery-empty yellow" -> "LOW"
      [] icon = "fa-battery-quarter" -> "QUARTER"
      [] icon = "fa-battery-half" -> "HALF"
      [] icon = "fa-battery-three-quarters" -> "THREE_QUARTER"
      [] icon = "fa-battery-full green" -> "FULL"
      [] OTHER -> "NONE"

\* C5: every battery percent 0..100 gets the class of the spec's table, and
\* the placeholder icon is never the final icon.
C5_BatteryPartition ==
    \A r \in Conns : \A k \in 1 .. Len(data[r]) :
        LET s == data[r][k]
        IN  /\ s.BatteryIcon # "fa-battery-exclamation"
            /\ ClassOfIcon(s.BatteryIcon) # "NONE"
            /\ s.BatteryLevel \in 0 .. 100 =>
                  ClassOfIcon(s.BatteryIcon) = ClassOfPercent(s.BatteryLevel)

C5_Witness ==
    \E r \in Conns : \E k \in FromRow(r) :
        /\ data[r][k].BatteryLevel = 5
        /\ data[r][k].BatteryIcon = "fa-battery-empty yellow"

\* the spec's banding, on the elapsed seconds themselves
SpecFreshness(elapsedSeconds) ==
    LET Label(n, unit, tail) == <<n, unit, IF n = 1 THEN "" ELSE "s", tail>>
    IN  IF elapsedSeconds < 60 THEN <<"Up to date">>
        ELSE IF elapsedSeconds < 3600
             THEN Label(elapsedSeconds \div 60, " Minute", " ago")
        ELSE IF elapsedSeconds < 86400
             THEN Label(elapsedSeconds \div 3600, " Hour", " ago")
        ELSE Label(elapsedSeconds \div 86400, " Day", "")

\* C6: for a parsable timestamp the label is the spec's banding of the
\* elapsed seconds, negative ones included.
C6_FreshnessBands ==
    \A r \in Conns : \A k \in FromRow(r) :
        LET s == data[r][k]
            parsed == ParseRFC3339(s.Timestamp)
        IN  parsed.ok => s.TimeRelative = SpecFreshness(now - parsed.unix)

C6_Witness ==
    \E r \in Conns : \E k \in FromRow(r) :
        /\ ParseRFC3339(data[r][k].Timestamp).ok
        /\ now - ParseRFC3339(data[r][k].Timestamp).unix = 86400
        /\ data[r][k].TimeRelative = <<1, " Day", "", "">>

\* the devices whose row was fetched with a timestamp that does not parse
Unparsable(r) ==
    {m \in DOMAIN fetched[r] :
        ~fetched[r][m].err /\ ~ParseRFC3339(fetched[r][m].row.timestamp).ok}

\* C7: a timestamp that does not parse becomes the label unchanged, its
\* record is in the result, and no error is written because of it.
C7_UnparsableTimestamp ==
    \A r \in Conns :
        /\ \A m \in Unparsable(r) :
              /\ \E k \in 1 .. Len(data[r]) :
                    /\ data[r][k].Mac = m
                    /\ data[r][k].TimeRelative = fetched[r][m].row.timestamp
              /\ \A i \in Rendered(r) :
                    \E k \in 1 .. Len(w[r].body[i].data) :
                        /\ w[r].body[i].data[k].Mac = m
                        /\ w[r].body[i].data[k].TimeRelative
                              = fetched[r][m].row.timestamp
        /\ Cardinality(ErrorChunks(r)) = Cardinality(FailedMacs(r))
        /\ FailedMacs(r) = {} => w[r].status \in {0, 200}

C7_Witness ==
    \E r \in Conns :
        /\ pc[r] = "done"
        /\ Rendered(r) # {}
        /\ FailedMacs(r) = {}
        /\ \E m \in Unparsable(r) : fetched[r][m].row.timestamp = BadTimestamp
        /\ w[r].status = 200

\* C8: a fetched sample with humidity <= 0 aborts the run with a failure
\* signal; no record with a derived dew point is made of it.
C8_NonPositiveHumidityAborts ==
    \A r \in Conns : \A m \in DOMAIN fetched[r] :
        (~fetched[r][m].err /\ fetched[r][m].row.humidity <= 0) =>
            /\ \A k \in 1 .. Len(data[r]) : data[r][k].Mac # m
            /\ Rendered(r) = {}
            /\ ErrorChunks(r) # {}

\* the samples a sensor can report: humidity in (0, 100] percent
ValidSample(r, k) ==
    /\ k \in FromRow(r)
    /\ fetched[r][data[r][k].Mac].row.humidity \in 1 .. 10000

IsWhole(a) == a.cls = "num" /\ a.v % FP = 0

\* C9 as stated: AbsHum is a whole number within 0.5 of the formula's value.
C9_AbsHumNearestWhole ==
    \A r \in Conns : \A k \in 1 .. Len(data[r]) :
        ValidSample(r, k) =>
            LET s == data[r][k]
                x == AbsHumFormula(s.Humidity, s.Temp)
            IN  /\ IsWhole(s.AbsHum)
                /\ 2 * Abs(s.AbsHum.v - x.v) <= FP

\* C9 amended: AbsHum is a whole number within 0.5 of ten times the
\* formula's value.
C9_AbsHumTenfoldRounded ==
    \A r \in Conns : \A k \in 1 .. Len(data[r]) :
        ValidSample(r, k) =>
            LET s == data[r][k]
                x == AbsHumFormula(s.Humidity, s.Temp)
            IN  /\ IsWhole(s.AbsHum)
                /\ 2 * Abs(s.AbsHum.v - 10 * x.v) <= FP

C9_Witness ==
    \E r \in Conns : \E k \in 1 .. Len(data[r]) :
        /\ ValidSample(r, k)
        /\ data[r][k].Humidity = F(50)
        /\ data[r][k].Temp = F(20)
        /\ data[r][k].AbsHum = F(86)

\* the response of a run, from the registry, what its queries returned and
\* the clock alone
RECURSIVE Ascending(_)
Ascending(S) ==
    IF S = {} THEN <<>>
    ELSE LET least == CHOOSE m \in S : \A o \in S \ {m} : StrLess(m, o)
         IN  <<least>> \o Ascending(S \ {least})

ResponseOf(cfg, got, clock) ==
    LET order == Ascending(DOMAIN cfg)
        failures == Cardinality({m \in DOMAIN cfg : got[m].err})
    IN  [status |-> IF failures > 0 THEN 500 ELSE 200,
         body |->
            [i \in 1 .. failures |->
                [kind |-> "error",
                 error |-> Message("Data could not be loaded", <<>>),
                 data |-> <<>>]]
            \o <<[kind |-> "sensors.html", error |-> Message("", <<>>),
                  data |-> [k \in 1 .. Len(order) |->
                              Derive(Scan(NewSensor(order[k], cfg[order[k]]),
                                          got[order[k]]), clock)]]>>]

\* C10: a step of one request changes neither the registry, nor a store,
\* nor another request's state; what a query returns is what the store
\* holds; and the finished response is a function of the registry, the
\* returned rows and the clock, whatever ran before or alongside.
C10_NoSharedState ==
    [][\A r \in Conns :
          <<pc'[r], remaining'[r], data'[r], w'[r], fetched'[r]>>
              # <<pc[r], remaining[r], data[r], w[r], fetched[r]>>
          => /\ configMap' = configMap
             /\ stores' = stores
             /\ \A q \in Conns \ {r} :
                   <<pc'[q], remaining'[q], data'[q], w'[q], fetched'[q]>>
                       = <<pc[q], remaining[q], data[q], w[q], fetched[q]>>
             /\ \A m \in DOMAIN fetched'[r] :
                   fetched'[r][m] \in QueryRow(stores[configMap[m].Db])
             /\ pc'[r] = "done" =>
                   w'[r] = ResponseOf(configMap, fetched'[r], now)]_vars

C10_Witness ==
    /\ pc["c1"] = "done"
    /\ FailedMacs("c1") # {}
    /\ pc["c2"] = "loop"
    /\ data["c2"] # <<>>
====
